---- MODULE Spec2Model ----
(***************************************************************************)
(* Model of detect_labels.py: the provision -> upload -> detect ->         *)
(* aggregate -> persist pipeline driven by main().                         *)
(*                                                                         *)
(* Strings that the program takes apart (paths, prefixes, keys) are        *)
(* sequences of tokens in which the path separator "/" is a token of its   *)
(* own, so that basename, rstrip('/') and replace('/', '__') are computed. *)
(***************************************************************************)
EXTENDS Integers, Sequences, FiniteSets, TLC

VARIABLES args, environ, pc, exitStatus, escaped, calls, i, uploaded, keys,
          j, yielded, responses, combined, csv_rows, csv_file, json_file,
          per_image_files

vars == <<args, environ, pc, exitStatus, escaped, calls, i, uploaded, keys,
          j, yielded, responses, combined, csv_rows, csv_file, json_file,
          per_image_files>>

----------------------------------------------------------------------------
(* Bounds and input universes *)

MaxImages == 3

Paths == { <<"a.jpg">>, <<"x", "/", "a.jpg">>, <<"b.png">>, <<"missing.jpg">> }

\* the local files that exist (os.path.isfile is true of exactly these)
LocalFiles == { <<"a.jpg">>, <<"x", "/", "a.jpg">>, <<"b.png">> }

Prefixes == { <<>>, <<"uploads">>, <<"uploads", "/">> }

Regions == { "us-east-1", "eu-west-1" }

\* AWS_REGION in the environment; "" stands for unset
EnvRegions == { "", "eu-west-1" }

\* the profiles the local AWS configuration defines
KnownProfiles == { "dev" }

Profiles == { "", "dev", "ghost" }

PerImageDirs == { "", "out" }

ImageLists == UNION { [1..n -> Paths] : n \in 1..MaxImages }

NoException == "none"

Errors == { "ClientError", "NoCredentialsError" }

Outcomes == { "ok" } \cup Errors

\* what head_bucket can do: return, or raise; a ClientError carries Error.Code
\* and HTTPStatusCode (0 when the response has no ResponseMetadata)
HeadBucketResults ==
    { [result |-> "ok", code |-> "", http |-> 200],
      [result |-> "NoCredentialsError", code |-> "", http |-> 0],
      [result |-> "ClientError", code |-> "404", http |-> 404],
      [result |-> "ClientError", code |-> "NoSuchBucket", http |-> 0],
      [result |-> "ClientError", code |-> "", http |-> 404],
      [result |-> "ClientError", code |-> "403", http |-> 403] }

\* DetectLabels responses: a numeric confidence is a kind and a value in tenths
Cat == [Name |-> "Cat", Confidence |-> [kind |-> "float", tenths |-> 912],
        Parents |-> "Animal"]

Dog == [Name |-> "Dog", Confidence |-> [kind |-> "int", tenths |-> 800],
        Parents |-> "Animal"]

DetectResponses ==
    { [LabelModelVersion |-> "3.0"],
      [Labels |-> <<Dog, Cat>>, LabelModelVersion |-> "3.0"] }

----------------------------------------------------------------------------
(* Pure helpers *)

RECURSIVE rstrip(_)
rstrip(s) ==
    IF s # <<>> /\ s[Len(s)] = "/" THEN rstrip(SubSeq(s, 1, Len(s) - 1)) ELSE s

LastSlash(p) ==
    LET S == { n \in 1..Len(p) : p[n] = "/" }
    IN  IF S = {} THEN 0 ELSE CHOOSE n \in S : \A m \in S : m <= n

basename(p) == SubSeq(p, LastSlash(p) + 1, Len(p))

isfile_Always(p) == TRUE

isfile(p) == p \in LocalFiles

RemoteKey(prefix, local) ==
    IF prefix # <<>> THEN rstrip(prefix) \o <<"/">> \o basename(local)
    ELSE basename(local)

\* mimetypes.guess_type by extension; "" stands for None
guess_type(local) ==
    LET f == basename(local)
    IN  IF f \in { <<"a.jpg">>, <<"missing.jpg">> } THEN "image/jpeg"
        ELSE IF f = <<"b.png">> THEN "image/png"
        ELSE ""

\* the opaque digest head_object reports for the object last written
ETagOf(local) == <<"etag">> \o local

IsNotFound_CodeOnly(code, http) == code \in { "404", "NoSuchBucket" }

IsNotFound(code, http) == code \in { "404", "NoSuchBucket" } \/ http = 404

CreateBucketParams_Always(bucket, region) ==
    [Bucket |-> bucket,
     CreateBucketConfiguration |-> [LocationConstraint |-> region]]

CreateBucketParams(bucket, region) ==
    IF region # "us-east-1"
    THEN [Bucket |-> bucket,
          CreateBucketConfiguration |-> [LocationConstraint |-> region]]
    ELSE [Bucket |-> bucket]

\* the region constraint a create_bucket call carries; "" when it carries none
LocationConstraintOf(params) ==
    IF "CreateBucketConfiguration" \in DOMAIN params
    THEN params.CreateBucketConfiguration.LocationConstraint
    ELSE ""

float(c) == [kind |-> "float", tenths |-> c.tenths]

RespGetLabels(resp) ==
    IF "Labels" \in DOMAIN resp THEN resp.Labels ELSE <<>>

NormalizeLabels_Reversed(resp) ==
    LET L == RespGetLabels(resp)
    IN  [n \in 1..Len(L) |->
            [name |-> L[Len(L) + 1 - n].Name,
             confidence |-> float(L[Len(L) + 1 - n].Confidence)]]

NormalizeLabels(resp) ==
    LET L == RespGetLabels(resp)
    IN  [n \in 1..Len(L) |->
            [name |-> L[n].Name, confidence |-> float(L[n].Confidence)]]

\* a dict is the sequence of its items in insertion order
DictKeys(d) == [n \in 1..Len(d) |-> d[n].key]

DictHas(d, k) == \E n \in 1..Len(d) : d[n].key = k

DictSet(d, k, v) ==
    IF DictHas(d, k)
    THEN [n \in 1..Len(d) |-> IF d[n].key = k THEN [key |-> k, value |-> v] ELSE d[n]]
    ELSE Append(d, [key |-> k, value |-> v])

RowsOf(key, labels) ==
    [n \in 1..Len(labels) |-> <<key, labels[n].name, labels[n].confidence>>]

ReplaceSlash(key) ==
    [n \in 1..Len(key) |-> IF key[n] = "/" THEN "__" ELSE key[n]]

CsvHeader == <<"s3_key", "label", "confidence">>

CsvDocument(rows) == <<CsvHeader>> \o rows

PerImageName(key) == ReplaceSlash(key) \o <<".json">>

RECURSIVE PerImageDocuments(_, _)
PerImageDocuments(d, n) ==
    IF n = 0 THEN <<>>
    ELSE LET rest == PerImageDocuments(d, n - 1)
             name == PerImageName(d[n].key)
             doc  == [s3_key |-> d[n].key, labels |-> d[n].value]
         IN  [f \in (DOMAIN rest) \cup {name} |-> IF f = name THEN doc ELSE rest[f]]

Call(op, item, key, arg, http, result) ==
    [op |-> op, item |-> item, key |-> key, arg |-> arg, http |-> http,
     result |-> result]

----------------------------------------------------------------------------
\* the default of --region: AWS_REGION when set, else 'us-east-1'
DefaultRegionOf(e) == IF e # "" THEN e ELSE "us-east-1"

(* State after argument parsing.  args holds the options that are read more *)
(* than once or by more than one stage; --profile and --json-per-image-dir   *)
(* are read at one place each and are drawn there.                           *)

Init ==
    /\ \E e \in EnvRegions, r \in Regions \cup {""}, im \in ImageLists,
          pf \in Prefixes :
          /\ environ = [AWS_REGION |-> e]
          /\ args = [bucket |-> "my-bucket",
                     region |-> IF r # "" THEN r ELSE DefaultRegionOf(e),
                     images |-> im, prefix |-> pf]
    /\ pc = "session"
    /\ exitStatus = 0
    /\ escaped = NoException
    /\ calls = <<>>
    /\ i = 1
    /\ uploaded = <<>>
    /\ keys = <<>>
    /\ j = 1
    /\ yielded = <<>>
    /\ responses = <<>>
    /\ combined = <<>>
    /\ csv_rows = <<>>
    /\ csv_file = <<>>
    /\ json_file = <<>>
    /\ per_image_files = <<>>

Exit(code) ==
    /\ pc' = "exit"
    /\ exitStatus' = code
    /\ escaped' = NoException

\* an exception no handler of main catches: traceback, exit status 1
Escape(exc) ==
    /\ pc' = "exit"
    /\ exitStatus' = 1
    /\ escaped' = exc

----------------------------------------------------------------------------
(* main, lines 104-113: the session and the two clients *)

CreateSession ==
    /\ pc = "session"
    /\ \E profile \in Profiles :
          IF profile # "" /\ profile \notin KnownProfiles
          THEN Exit(2)
          ELSE /\ pc' = "ensure_bucket"
               /\ UNCHANGED <<exitStatus, escaped>>
    /\ UNCHANGED <<args, environ, calls, i, uploaded, keys, j, yielded,
                   responses, combined, csv_rows, csv_file, json_file,
                   per_image_files>>

(* ensure_bucket_exists as main calls it, lines 115-119 *)

HeadBucketCall(h) == Call("head_bucket", 0, <<>>, h.code, h.http, h.result)

CreateBucketCall(c) ==
    Call("create_bucket", 0, <<>>,
         LocationConstraintOf(CreateBucketParams(args.bucket, args.region)), 0, c)

EnsureBucketExists ==
    /\ pc = "ensure_bucket"
    /\ \E h \in HeadBucketResults, c \in Outcomes :
          IF h.result = "ok"
          THEN /\ calls' = Append(calls, HeadBucketCall(h))
               /\ pc' = "upload"
               /\ UNCHANGED <<exitStatus, escaped>>
          ELSE IF h.result = "ClientError"
          THEN IF IsNotFound(h.code, h.http)
               THEN /\ calls' = calls \o <<HeadBucketCall(h), CreateBucketCall(c)>>
                    /\ IF c = "ok"
                       THEN pc' = "upload" /\ UNCHANGED <<exitStatus, escaped>>
                       ELSE IF c = "ClientError" THEN Exit(3) ELSE Escape(c)
               ELSE /\ calls' = Append(calls, HeadBucketCall(h))
                    /\ Exit(3)
          ELSE /\ calls' = Append(calls, HeadBucketCall(h))
               /\ Escape(h.result)
    /\ UNCHANGED <<args, environ, i, uploaded, keys, j, yielded, responses,
                   combined, csv_rows, csv_file, json_file, per_image_files>>

(* upload_images, lines 32-44: one iteration of the loop *)

UploadItem ==
    /\ pc = "upload"
    /\ i <= Len(args.images)
    /\ LET local == args.images[i]
           key   == RemoteKey(args.prefix, local)
           ctype == guess_type(local)
       IN  IF ~isfile(local)
           THEN /\ i' = i + 1
                /\ UNCHANGED <<pc, exitStatus, escaped, calls, uploaded>>
           ELSE \E u \in Outcomes, h \in Outcomes :
                  IF u # "ok"
                  THEN /\ calls' = Append(calls, Call("upload_file", i, key, ctype, 0, u))
                       /\ Escape(u)
                       /\ UNCHANGED <<i, uploaded>>
                  ELSE IF h # "ok"
                  THEN /\ calls' = calls \o <<Call("upload_file", i, key, ctype, 0, u),
                                             Call("head_object", i, key, "", 0, h)>>
                       /\ Escape(h)
                       /\ UNCHANGED <<i, uploaded>>
                  ELSE /\ calls' = calls \o <<Call("upload_file", i, key, ctype, 0, u),
                                             Call("head_object", i, key, "", 0, h)>>
                       /\ uploaded' = Append(uploaded, <<key, ETagOf(local)>>)
                       /\ i' = i + 1
                       /\ UNCHANGED <<pc, exitStatus, escaped>>
    /\ UNCHANGED <<args, environ, keys, j, yielded, responses, combined,
                   csv_rows, csv_file, json_file, per_image_files>>

(* main, lines 121-128: upload_images has returned *)

EmptyBatch(ks) == ks = <<>>

CheckUploads ==
    /\ pc = "upload"
    /\ i > Len(args.images)
    /\ keys' = [n \in 1..Len(uploaded) |-> uploaded[n][1]]
    /\ IF EmptyBatch(keys')
       THEN Exit(4)
       ELSE pc' = "detect" /\ UNCHANGED <<exitStatus, escaped>>
    /\ UNCHANGED <<args, environ, calls, i, uploaded, j, yielded, responses,
                   combined, csv_rows, csv_file, json_file, per_image_files>>

(* detect_labels_for_keys, lines 49-60: the generator runs to its next yield *)

DetectCall(key, result) == Call("detect_labels", j, key, "", 0, result)

\* a detector that repeats the call before it yields
DetectOk_Retry(resp) ==
    /\ calls' = calls \o <<DetectCall(keys[j], "ok"), DetectCall(keys[j], "ok")>>
    /\ responses' = Append(responses, [key |-> keys[j], resp |-> resp])
    /\ yielded' = <<keys[j], NormalizeLabels(resp)>>
    /\ pc' = "aggregate"
    /\ UNCHANGED <<exitStatus, escaped, csv_file, json_file, per_image_files>>

DetectOk(resp) ==
    /\ calls' = Append(calls, DetectCall(keys[j], "ok"))
    /\ responses' = Append(responses, [key |-> keys[j], resp |-> resp])
    /\ yielded' = <<keys[j], NormalizeLabels(resp)>>
    /\ pc' = "aggregate"
    /\ UNCHANGED <<exitStatus, escaped, csv_file, json_file, per_image_files>>

\* a handler that saves what was gathered before it reports the failure
DetectError_Flush(err) ==
    /\ calls' = Append(calls, DetectCall(keys[j], err))
    /\ IF err = "NoCredentialsError" THEN Exit(5) ELSE Exit(6)
    /\ csv_file' = CsvDocument(csv_rows)
    /\ json_file' = combined
    /\ UNCHANGED <<responses, yielded, per_image_files>>

\* main, lines 134-139
DetectError(err) ==
    /\ calls' = Append(calls, DetectCall(keys[j], err))
    /\ IF err = "NoCredentialsError" THEN Exit(5) ELSE Exit(6)
    /\ UNCHANGED <<responses, yielded, csv_file, json_file, per_image_files>>

DetectNext ==
    /\ pc = "detect"
    /\ j <= Len(keys)
    /\ \/ \E resp \in DetectResponses : DetectOk(resp)
       \/ \E err \in Errors : DetectError(err)
    /\ UNCHANGED <<args, environ, i, uploaded, keys, j, combined, csv_rows>>

(* main, lines 130-133: the body of the aggregation loop *)

Aggregate ==
    /\ pc = "aggregate"
    /\ combined' = DictSet(combined, yielded[1], yielded[2])
    /\ csv_rows' = csv_rows \o RowsOf(yielded[1], yielded[2])
    /\ j' = j + 1
    /\ pc' = "detect"
    /\ UNCHANGED <<args, environ, exitStatus, escaped, calls, i, uploaded,
                   keys, yielded, responses, csv_file, json_file,
                   per_image_files>>

(* main, lines 141-144: the generator is exhausted, the writers run *)

WriteOutputs ==
    /\ pc = "detect"
    /\ j > Len(keys)
    /\ csv_file' = CsvDocument(csv_rows)
    /\ json_file' = combined
    /\ \E json_per_image_dir \in PerImageDirs :
          per_image_files' = IF json_per_image_dir # ""
                             THEN PerImageDocuments(combined, Len(combined))
                             ELSE per_image_files
    /\ Exit(0)
    /\ UNCHANGED <<args, environ, calls, i, uploaded, keys, j, yielded,
                   responses, combined, csv_rows>>

Next ==
    \/ CreateSession
    \/ EnsureBucketExists
    \/ UploadItem
    \/ CheckUploads
    \/ DetectNext
    \/ Aggregate
    \/ WriteOutputs

Spec == Init /\ [][Next]_vars

\* main is one sequential thread: whichever step is enabled is eventually taken
FairSpec == Spec /\ WF_vars(Next)

----------------------------------------------------------------------------
(* Vocabulary of the properties *)

Range(f) == { f[n] : n \in DOMAIN f }

CallsOf(op) == SelectSeq(calls, LAMBDA c : c.op = op)

CallsFor(op, n) == SelectSeq(calls, LAMBDA c : c.op = op /\ c.item = n)

Exited(code) == pc = "exit" /\ escaped = NoException /\ exitStatus = code

NoFileWritten == csv_file = <<>> /\ json_file = <<>> /\ per_image_files = <<>>

\* upload_images has returned its list to main
UploadReturned ==
    \/ pc = "upload" /\ i > Len(args.images)
    \/ pc \in { "detect", "aggregate" }
    \/ Exited(0) \/ Exited(4) \/ Exited(5) \/ Exited(6)

\* the aggregation loop of main has run to its end
AggregationFinished == (pc = "detect" /\ j > Len(keys)) \/ Exited(0)

\* the label list the detector is to produce for a response: name and
\* floating-point confidence of each entry, in the response's order
LabelsOfResponse(resp) ==
    IF "Labels" \in DOMAIN resp
    THEN [n \in 1..Len(resp.Labels) |->
             [name |-> resp.Labels[n].Name,
              confidence |-> [kind |-> "float",
                              tenths |-> resp.Labels[n].Confidence.tenths]]]
    ELSE <<>>

RECURSIVE SumOfLabelLists(_, _)
SumOfLabelLists(d, n) ==
    IF n = 0 THEN 0 ELSE SumOfLabelLists(d, n - 1) + Len(d[n].value)

\* one row per label of the first n successful detections, in order
RECURSIVE RowsOfResponses(_)
RowsOfResponses(n) ==
    IF n = 0 THEN <<>>
    ELSE RowsOfResponses(n - 1) \o
         [m \in 1..Len(LabelsOfResponse(responses[n].resp)) |->
             <<responses[n].key,
               LabelsOfResponse(responses[n].resp)[m].name,
               LabelsOfResponse(responses[n].resp)[m].confidence>>]

\* the upload records of the first n items: one per existing file, in order
RECURSIVE RecordsOfExisting(_)
RecordsOfExisting(n) ==
    IF n = 0 THEN <<>>
    ELSE IF args.images[n] \in LocalFiles
         THEN Append(RecordsOfExisting(n - 1),
                     <<RemoteKey(args.prefix, args.images[n]), ETagOf(args.images[n])>>)
         ELSE RecordsOfExisting(n - 1)

UploadedKeys == [n \in 1..Len(uploaded) |-> uploaded[n][1]]

\* the successful detections main has already aggregated
Aggregated == IF pc = "aggregate" THEN Len(responses) - 1 ELSE Len(responses)

----------------------------------------------------------------------------
(* C1 *)

\* C1: once aggregation has finished, the row list is as long as the label
\* lists of the aggregate result map taken together, and every row's key is a
\* key of that map -- for all inputs, two paths with one basename included.
C1_RowsMatchAggregate ==
    AggregationFinished =>
        /\ Len(csv_rows) = SumOfLabelLists(combined, Len(combined))
        /\ \A n \in 1..Len(csv_rows) : DictHas(combined, csv_rows[n][1])

----------------------------------------------------------------------------
(* C2 *)

ItemFailed(n) ==
    \E c \in Range(calls) :
        c.item = n /\ c.op \in { "upload_file", "head_object" } /\ c.result # "ok"

UploadStageEntered ==
    \E c \in Range(calls) : c.op \in { "head_bucket", "create_bucket" } /\ c.result = "ok"

\* C2: a run in which every item is missing locally or fails to upload ends
\* with exit status 4, issues no detect-labels call and runs no writer.
C2_EmptyBatchSignal ==
    ( /\ pc = "exit"
      /\ UploadStageEntered
      /\ \A n \in 1..Len(args.images) : args.images[n] \notin LocalFiles \/ ItemFailed(n) )
    => /\ Exited(4)
       /\ CallsOf("detect_labels") = <<>>
       /\ NoFileWritten

----------------------------------------------------------------------------
(* C3 *)

\* C3: every run ends in status 0 or in one of the signals 2, 3, 4, 5, 6, and
\* no failure of a remote call lets an exception escape past main.
C3_NoExceptionEscapes ==
    pc = "exit" => escaped = NoException /\ exitStatus \in { 0, 2, 3, 4, 5, 6 }

----------------------------------------------------------------------------
(* C4 *)

\* C4: upload_images skips every item that is no regular file and goes on: the
\* records are one per existing item, in order, none for a missing item; a
\* missing item never ends the run, and with at least one item uploaded the
\* run goes on to detection instead of the empty-batch signal.
C4_SkipMissing ==
    /\ pc = "upload" => uploaded = RecordsOfExisting(i - 1)
    /\ UploadReturned =>
          /\ uploaded = RecordsOfExisting(Len(args.images))
          /\ Len(uploaded) = Cardinality({ n \in 1..Len(args.images) :
                                             args.images[n] \in LocalFiles })
          /\ uploaded # <<>> =>
                (pc \in { "upload", "detect", "aggregate" }
                    \/ Exited(0) \/ Exited(5) \/ Exited(6))
          /\ (uploaded # <<>> /\ pc # "upload") => keys = UploadedKeys
    /\ (pc = "exit" /\ escaped # NoException) =>
          calls # <<>> /\ calls[Len(calls)].result = escaped

C4_Witness ==
    /\ pc = "detect"
    /\ \E n \in 1..Len(args.images) : args.images[n] \notin LocalFiles
    /\ Len(uploaded) = 2
    /\ Len(args.images) = 3

----------------------------------------------------------------------------
(* C5 *)

EnsureBucketDone == pc \notin { "session", "ensure_bucket" } /\ calls # <<>>

\* C5: create_bucket is called exactly when head_bucket raised a ClientError
\* with code '404' or 'NoSuchBucket' or HTTP status 404; an existing bucket
\* gives no create call and no error; any other failure gives no create call
\* and reaches main as it was raised; neither call is made twice.
C5_CreateIffNotFound ==
    /\ Len(CallsOf("head_bucket")) <= 1
    /\ Len(CallsOf("create_bucket")) <= 1
    /\ EnsureBucketDone =>
          LET h == calls[1]
              notFound == /\ h.result = "ClientError"
                          /\ (h.arg \in { "404", "NoSuchBucket" } \/ h.http = 404)
          IN  /\ h.op = "head_bucket"
              /\ (CallsOf("create_bucket") # <<>>) <=> notFound
              /\ notFound => calls[2].op = "create_bucket"
              /\ h.result = "ok" =>
                    /\ ~Exited(3)
                    /\ Len(calls) = 1 => pc = "upload" \/ Exited(4)
              /\ (h.result = "ClientError" /\ ~notFound) => Exited(3) /\ Len(calls) = 1
              /\ h.result = "NoCredentialsError" =>
                    pc = "exit" /\ escaped = "NoCredentialsError" /\ Len(calls) = 1

C5_Witness ==
    /\ pc = "upload"
    /\ Len(calls) = 2
    /\ calls[1].arg = "" /\ calls[1].http = 404
    /\ calls[2].op = "create_bucket"

----------------------------------------------------------------------------
(* C6 *)

LastDetectionOf(k) ==
    CHOOSE n \in 1..Aggregated :
        responses[n].key = k /\ \A m \in 1..Aggregated : responses[m].key = k => m <= n

----------------------------------------------------------------------------
(* C7 *)

C7_StagesNotEntered ==
    /\ Exited(2) => calls = <<>> /\ NoFileWritten
    /\ Exited(3) =>
          /\ \A c \in Range(calls) : c.op \in { "head_bucket", "create_bucket" }
          /\ uploaded = <<>> /\ NoFileWritten
    /\ Exited(4) => CallsOf("detect_labels") = <<>> /\ NoFileWritten
    /\ (Exited(5) \/ Exited(6)) =>
          /\ calls[Len(calls)].op = "detect_labels"
          /\ calls[Len(calls)].result =
                (IF exitStatus = 5 THEN "NoCredentialsError" ELSE "ClientError")
          /\ calls[Len(calls)].item = j
          /\ Len(CallsOf("detect_labels")) = j
          /\ Len(responses) = j - 1
          /\ Len(csv_rows) = Len(RowsOfResponses(j - 1))
          /\ NoFileWritten

\* C7: after a fatal failure nothing of a later stage is done: no remote call
\* after profile-not-found, no upload after a provisioning failure, no detect
\* call after an empty batch, and after a failed detect call no further detect
\* call and no output file, whatever was aggregated before it.
C7_NoLaterStage ==
    /\ []C7_StagesNotEntered
    /\ [][pc = "exit" => UNCHANGED vars]_vars

C7_Witness ==
    /\ Exited(6)
    /\ j = 3
    /\ Len(combined) = 2
    /\ csv_rows # <<>>
    /\ NoFileWritten

----------------------------------------------------------------------------
(* C8 *)

\* C8: uploads follow the caller's order, detect calls follow the upload
\* records, and on success the outputs keep that order: rows by item then by
\* label, keys of the combined map in the order the items were detected --
\* for every input list, lists with two items of one remote key included.
C8_OrderPreserved ==
    /\ \A n, m \in 1..Len(calls) :
          (n < m /\ calls[n].op = "upload_file" /\ calls[m].op = "upload_file")
             => calls[n].item < calls[m].item
    /\ LET d == CallsOf("detect_labels")
       IN  \A n \in 1..Len(d) : d[n].item = n /\ d[n].key = UploadedKeys[n]
    /\ Exited(0) =>
          /\ csv_file = <<CsvHeader>> \o RowsOfResponses(Len(responses))
          /\ DictKeys(json_file) = [n \in 1..Len(responses) |-> responses[n].key]

----------------------------------------------------------------------------
(* C9 *)

\* C9 as stated: with the region equal to the default region the create call
\* carries no region constraint, with any other region it carries that region.
C9_DefaultRegionOmitted ==
    \A c \in Range(CallsOf("create_bucket")) :
        IF args.region = DefaultRegionOf(environ.AWS_REGION)
        THEN c.arg = ""
        ELSE c.arg = args.region

\* C9 (amended): the create call carries no region constraint exactly when the
\* region is 'us-east-1', whatever default AWS_REGION gives --region; for
\* every other region it carries that region as its constraint.
C9_UsEast1Omitted ==
    \A c \in Range(CallsOf("create_bucket")) :
        IF args.region = "us-east-1" THEN c.arg = "" ELSE c.arg = args.region

C9_Witness ==
    /\ CallsOf("create_bucket") # <<>>
    /\ args.region = "us-east-1"
    /\ environ.AWS_REGION = "eu-west-1"

----------------------------------------------------------------------------
(* C10 *)

C10_AtMostOnce ==
    /\ Len(CallsOf("head_bucket")) <= 1
    /\ Len(CallsOf("create_bucket")) <= 1
    /\ \A n \in 1..Len(args.images) :
          /\ Len(CallsFor("upload_file", n)) <= 1
          /\ Len(CallsFor("head_object", n)) <= 1
          /\ Len(CallsFor("detect_labels", n)) <= 1
    /\ Len(CallsOf("detect_labels")) <= Len(uploaded)
    /\ \A n \in 1..Len(calls) :
          calls[n].op = "head_object" =>
              /\ n > 1
              /\ calls[n - 1].op = "upload_file"
              /\ calls[n - 1].item = calls[n].item
              /\ calls[n - 1].result = "ok"

C10_DetectAfterAggregate ==
    (CallsOf("detect_labels")' # CallsOf("detect_labels")) =>
        /\ Len(calls') = Len(calls) + 1
        /\ csv_rows = RowsOfResponses(Len(responses))
        /\ Len(CallsOf("detect_labels")) = Len(responses)

\* C10: no remote call is repeated and every run ends: at most one
\* head_bucket and one create_bucket, at most one upload_file and then one
\* head_object per item, at most one detect_labels per upload record, issued
\* only when the labels of every earlier key have been aggregated.
C10_NoRetryAndTermination ==
    /\ []C10_AtMostOnce
    /\ [][C10_DetectAfterAggregate]_vars
    /\ <>(pc = "exit")

C10_Witness ==
    /\ Exited(0)
    /\ Len(CallsOf("create_bucket")) = 1
    /\ Len(CallsOf("upload_file")) = 3
    /\ Len(CallsOf("head_object")) = 3
    /\ Len(CallsOf("detect_labels")) = 3

====
